---- MODULE Spec2Model ----
(***************************************************************************)
(* tcxrs: derived statistics over parsed TCX activities.                   *)
(*                                                                         *)
(* The module models                                                       *)
(*   - the data model of src/src/tcx.rs (Activity, Lap, TrackPoint),       *)
(*   - Lap::calc_elevation and the Activity averages,                      *)
(*   - ActivityStats::new of src/src/stats.rs,                             *)
(*   - the batch pipeline of src/src/lib.rs (parse_folder with one spawned *)
(*     task per file, join_all, select, elevation pass, sort, report,      *)
(*     chart) and the error printing of src/src/main.rs.                   *)
(*                                                                         *)
(* Number representation.  Altitudes, gains and losses are f64 metres in   *)
(* the source; here they are integers counting HALF metres (100.5 m is     *)
(* 201), which is exact for every value the model draws.  Lap seconds and  *)
(* distances are whole seconds / metres.  Option<T> is a sequence: <<>> is *)
(* None and <<v>> is Some(v).  An integer division that panics yields      *)
(* Panic (<<>>) and a returned value v is Ok(v) (<<v>>).  A String is a    *)
(* sequence of character codes; the identifiers used are digit strings.    *)
(***************************************************************************)
EXTENDS Integers, Sequences, FiniteSets, TLC

VARIABLES
    pc,              \* position of the caller: pipeline stage or "api*"
    files,           \* the .tcx files of the folder, in all_tcx_paths order
    handles,         \* join_handles: one spawned parse task per file
    completion,      \* order in which the parse tasks finished (scheduler history)
    parsed_results,  \* Vec<TrainingCenterDatabase> returned by parse_folder
    activities,      \* Vec<&Activity>: indices into parsed_results (activity 0 of each)
    output_file,     \* the report file on disk
    activity_stats,  \* Vec<ActivityStats> built so far
    chart_file,      \* the chart image on disk
    stderr,          \* messages printed on the error stream
    activity,        \* an Activity held by a direct user of the library API
    stats,           \* result of ActivityStats::new(activity) for that user
    pace_result      \* results of average_pace / average_pace_seconds for that user

vars == <<pc, files, handles, completion, parsed_results, activities,
          output_file, activity_stats, chart_file, stderr, activity, stats,
          pace_result>>

(***************************************************************************)
(* Bounds of the model                                                     *)
(***************************************************************************)
MaxFiles == 3
MaxPoints == 3
MaxRuns == 2
MaxLaps == 2
MaxHrPoints == 2

(***************************************************************************)
(* Program constants                                                       *)
(***************************************************************************)
\* static ALTITUDE_THRESHOLD: f64 = 1.0  (two half metres)
ALTITUDE_THRESHOLD == 2
\* static FEET_PER_METER: f64 = 3.28084, times 10^5
FEET_PER_METER_E5 == 328084
\* static METERS_PER_MILE: f32 = 1609.344, times 10^3
METERS_PER_MILE_E3 == 1609344

(***************************************************************************)
(* Option / Result helpers                                                 *)
(***************************************************************************)
None == <<>>
Some(v) == <<v>>
unwrap_or(o, d) == IF o = None THEN d ELSE o[1]
Panic == <<>>
Ok(v) == <<v>>

Abs(x) == IF x < 0 THEN -x ELSE x

\* f64::round / f32::round of the non-negative rational p/q (half away from zero)
Round(p, q) == (p \div q) + (IF 2 * (p % q) >= q THEN 1 ELSE 0)

SeqsUpTo(S, n) == UNION {[1..k -> S] : k \in 0..n}

RECURSIVE SumSeq(_)
SumSeq(s) == IF s = <<>> THEN 0 ELSE Head(s) + SumSeq(Tail(s))

RECURSIVE Flatten(_)
Flatten(ss) == IF ss = <<>> THEN <<>> ELSE Head(ss) \o Flatten(Tail(ss))

(***************************************************************************)
(* Deserialization: the derived fields of a Lap are #[serde(default)], so  *)
(* a parsed lap carries last_alt = alt_gain_meters = alt_loss_meters = 0.  *)
(* `runs` is a history field (not in the source): the number of times      *)
(* calc_elevation has run on the lap.                                      *)
(***************************************************************************)
deserialize_lap(raw) ==
    [seconds |-> raw.seconds, distance |-> raw.distance,
     track_points |-> raw.track_points, extensions |-> raw.extensions,
     last_alt |-> 0, alt_gain_meters |-> 0, alt_loss_meters |-> 0,
     runs |-> 0]

deserialize_activity(raw) ==
    [id |-> raw.id,
     laps |-> [k \in 1..Len(raw.laps) |-> deserialize_lap(raw.laps[k])]]

\* serde_xml_rs::from_str in parse_file: a malformed file (<<>>) is an error
parse_file(file) ==
    IF file = <<>> THEN <<>>
    ELSE Ok([activities |->
               [j \in 1..Len(file[1].activities) |->
                   deserialize_activity(file[1].activities[j])]])

\* the parsed document without its derived fields (what the file held)
RawLap(lap) ==
    [seconds |-> lap.seconds, distance |-> lap.distance,
     track_points |-> lap.track_points, extensions |-> lap.extensions]

RawActivity(a) ==
    [id |-> a.id, laps |-> [k \in 1..Len(a.laps) |-> RawLap(a.laps[k])]]

RawDocument(tcd) ==
    [activities |-> [j \in 1..Len(tcd.activities) |-> RawActivity(tcd.activities[j])]]

(***************************************************************************)
(* impl Lap                                                                *)
(***************************************************************************)
total_measurements(lap) == Len(lap.track_points)

total_hr(lap) ==
    SumSeq([k \in 1..Len(lap.track_points) |-> unwrap_or(lap.track_points[k].hr, 0)])

\* the altitude the reference starts from (tcx.rs 329-333)
initial_alt(track_points) ==
    IF track_points # <<>> THEN unwrap_or(track_points[1].altitude, 0) ELSE 0

\* one iteration of the loop of calc_elevation, moving the reference on noise too
elevation_step_moving_reference(lap, tp) ==
    IF tp.altitude = None THEN lap
    ELSE LET altitude == tp.altitude[1]
             alt_change == Abs(altitude - lap.last_alt)
         IN  IF alt_change < ALTITUDE_THRESHOLD
             THEN [lap EXCEPT !.last_alt = altitude]
             ELSE IF altitude > lap.last_alt
                  THEN [lap EXCEPT !.alt_gain_meters = @ + alt_change,
                                   !.last_alt = altitude]
                  ELSE [lap EXCEPT !.alt_loss_meters = @ + alt_change,
                                   !.last_alt = altitude]

\* one iteration of the loop of calc_elevation, threshold compared with <=
elevation_step_inclusive_threshold(lap, tp) ==
    IF tp.altitude = None THEN lap
    ELSE LET altitude == tp.altitude[1]
             alt_change == Abs(altitude - lap.last_alt)
         IN  IF alt_change <= ALTITUDE_THRESHOLD
             THEN lap
             ELSE IF altitude > lap.last_alt
                  THEN [lap EXCEPT !.alt_gain_meters = @ + alt_change,
                                   !.last_alt = altitude]
                  ELSE [lap EXCEPT !.alt_loss_meters = @ + alt_change,
                                   !.last_alt = altitude]

\* one iteration of the loop of calc_elevation (tcx.rs 336-349)
elevation_step(lap, tp) ==
    IF tp.altitude = None THEN lap
    ELSE LET altitude == tp.altitude[1]
             alt_change == Abs(altitude - lap.last_alt)
         IN  IF alt_change < ALTITUDE_THRESHOLD
             THEN lap
             ELSE IF altitude > lap.last_alt
                  THEN [lap EXCEPT !.alt_gain_meters = @ + alt_change,
                                   !.last_alt = altitude]
                  ELSE [lap EXCEPT !.alt_loss_meters = @ + alt_change,
                                   !.last_alt = altitude]

\* for tp in self.track.track_points.iter() { ... }, from sample k on
RECURSIVE elevation_loop(_, _)
elevation_loop(lap, k) ==
    IF k > Len(lap.track_points) THEN lap
    ELSE elevation_loop(elevation_step(lap, lap.track_points[k]), k + 1)

\* calc_elevation that clears the totals before the pass
calc_elevation_resetting(lap) ==
    elevation_loop([lap EXCEPT !.last_alt = initial_alt(lap.track_points),
                               !.alt_gain_meters = 0,
                               !.alt_loss_meters = 0,
                               !.runs = @ + 1], 1)

calc_elevation(lap) ==
    elevation_loop([lap EXCEPT !.last_alt = initial_alt(lap.track_points),
                               !.runs = @ + 1], 1)

(***************************************************************************)
(* impl Activity                                                           *)
(***************************************************************************)
lap_count(a) == Len(a.laps)

\* usize division: a zero divisor panics
checked_div(n, d) == IF d = 0 THEN Panic ELSE Ok(n \div d)

average_hr(a) ==
    IF lap_count(a) = 0 THEN Ok(0)
    ELSE LET total_hr_all == SumSeq([k \in 1..Len(a.laps) |-> total_hr(a.laps[k])])
             total_divisor == SumSeq([k \in 1..Len(a.laps) |->
                                         total_measurements(a.laps[k])])
         IN  checked_div(total_hr_all, total_divisor)

total_distance_meters(a) == SumSeq([k \in 1..Len(a.laps) |-> a.laps[k].distance])

\* f32 metres per second as [kind, num, den]: "fin" is num/den, else inf or nan
average_pace_meters(a) ==
    IF lap_count(a) = 0 THEN [kind |-> "fin", num |-> 0, den |-> 1]
    ELSE LET total_time == SumSeq([k \in 1..Len(a.laps) |-> a.laps[k].seconds])
             total_distance == total_distance_meters(a)
         IN  IF total_time = 0
             THEN [kind |-> IF total_distance = 0 THEN "nan" ELSE "inf",
                   num |-> 0, den |-> 1]
             ELSE [kind |-> "fin", num |-> total_distance, den |-> total_time]

\* Duration::new((METERS_PER_MILE / pace).round() as u64, 0).  The cast
\* saturates: NaN gives 0 and +inf gives u64::MAX (18446744073709551615),
\* recorded as is_u64_max because the value exceeds TLC's integers.
\* 1609.344 * den / num is computed as (1609344 / 8) * den / (125 * num).
average_pace_seconds(a) ==
    LET pace == average_pace_meters(a)
    IN  IF pace.kind = "nan" THEN [as_secs |-> 0, is_u64_max |-> FALSE]
        ELSE IF pace.kind = "inf" THEN [as_secs |-> 0, is_u64_max |-> FALSE]
        ELSE IF pace.num = 0 THEN [as_secs |-> 0, is_u64_max |-> TRUE]
        ELSE [as_secs |-> Round((METERS_PER_MILE_E3 \div 8) * pace.den, 125 * pace.num),
              is_u64_max |-> FALSE]

\* format!("{:02}", n)
Fmt02(n) == IF n < 10 THEN "0" \o ToString(n) ELSE ToString(n)

average_pace(a) ==
    IF lap_count(a) = 0 THEN "00:00 / mi"
    ELSE LET duration == average_pace_seconds(a)
         IN  IF duration.is_u64_max
             THEN "307445734561825860:15 / mi"
             ELSE Fmt02(duration.as_secs \div 60) \o ":"
                    \o Fmt02(duration.as_secs % 60) \o " / mi"

\* (metres * FEET_PER_METER).round() as usize, metres given in half metres
to_feet(half_meters) == Round(half_meters * FEET_PER_METER_E5, 200000)

total_elevation_gain(a) ==
    to_feet(SumSeq([k \in 1..Len(a.laps) |-> a.laps[k].alt_gain_meters]))

total_elevation_loss(a) ==
    to_feet(SumSeq([k \in 1..Len(a.laps) |-> a.laps[k].alt_loss_meters]))

calc_lap_elevations(a) ==
    [a EXCEPT !.laps = [k \in 1..Len(a.laps) |-> calc_elevation(a.laps[k])]]

\* laps.filter_map(|l| l.extensions.get(0)).filter_map(|ext| ext.lx.avg_cadence).sum()
first_ext_cadence(lap) ==
    IF lap.extensions = <<>> THEN 0 ELSE unwrap_or(lap.extensions[1].avg_cadence, 0)

first_ext_watts(lap) ==
    IF lap.extensions = <<>> THEN 0 ELSE unwrap_or(lap.extensions[1].avg_watts, 0)

average_cadence(a) ==
    LET total_cadence == SumSeq([k \in 1..Len(a.laps) |-> first_ext_cadence(a.laps[k])])
        q == checked_div(total_cadence, lap_count(a))
    IN  IF q = Panic THEN Panic ELSE Ok(q[1] * 2)

average_watts(a) ==
    LET total_watts == SumSeq([k \in 1..Len(a.laps) |-> first_ext_watts(a.laps[k])])
    IN  checked_div(total_watts, lap_count(a))

(***************************************************************************)
(* ActivityStats::new: Panic when one of the field expressions panics.     *)
(* distance_mi and distance_km are fixed multiples of distance_m and only  *)
(* formatted for display; the record keeps the metres.                     *)
(***************************************************************************)
ActivityStats_new(a) ==
    LET hr == average_hr(a)
        watts == average_watts(a)
        cadence == average_cadence(a)
    IN  IF hr = Panic \/ watts = Panic \/ cadence = Panic THEN Panic
        ELSE Ok([date |-> a.id,
                 laps |-> lap_count(a),
                 distance_m |-> total_distance_meters(a),
                 average_hr |-> hr[1],
                 average_pace |-> average_pace(a),
                 average_pace_seconds |-> average_pace_seconds(a),
                 average_watts |-> watts[1],
                 average_cadence |-> cadence[1],
                 elevation_gain |-> total_elevation_gain(a),
                 elevation_loss |-> total_elevation_loss(a)])

\* ActivityStats::stats: the lines of one report block, in order
stats_lines(s) ==
    << <<"===", s.date>>,
       <<"Total laps", s.laps>>,
       <<"Distance", s.distance_m>>,
       <<"Average HR", s.average_hr>>,
       <<"Average Pace", s.average_pace>>,
       <<"Average Power", s.average_watts>>,
       <<"Average Cadence", s.average_cadence>>,
       <<"Elevation Gain", s.elevation_gain>>,
       <<"Elevation Loss", s.elevation_loss>>,
       <<"================================">> >>

(***************************************************************************)
(* lib.rs: the batch pipeline                                              *)
(***************************************************************************)
\* String::cmp: lexicographic comparison of the character sequences
RECURSIVE cmp(_, _)
cmp(a, b) ==
    IF a = <<>> THEN (IF b = <<>> THEN "Equal" ELSE "Less")
    ELSE IF b = <<>> THEN "Greater"
    ELSE IF Head(a) < Head(b) THEN "Less"
    ELSE IF Head(a) > Head(b) THEN "Greater"
    ELSE cmp(Tail(a), Tail(b))

\* the comparator with its arguments exchanged
by_id_reversed(a1, a2, parsed) ==
    cmp(parsed[a2].activities[1].id, parsed[a1].activities[1].id)

\* |a1, a2| a1.id.cmp(&a2.id), on references into parsed
by_id(a1, a2, parsed) ==
    cmp(parsed[a1].activities[1].id, parsed[a2].activities[1].id)

\* slice::sort_by is a stable sort: x goes after every element not greater than it
RECURSIVE insert_stable(_, _, _)
insert_stable(sorted, x, parsed) ==
    IF sorted = <<>> THEN <<x>>
    ELSE IF by_id(Head(sorted), x, parsed) = "Greater" THEN <<x>> \o sorted
    ELSE <<Head(sorted)>> \o insert_stable(Tail(sorted), x, parsed)

RECURSIVE sort_by(_, _)
sort_by(v, parsed) ==
    IF v = <<>> THEN <<>>
    ELSE insert_stable(sort_by(SubSeq(v, 1, Len(v) - 1), parsed), v[Len(v)], parsed)

\* filter_map(|tcb| tcb.get_activity_mut(0)): the documents that have an activity 0
select_activities(parsed) ==
    Flatten([i \in 1..Len(parsed) |->
                IF Len(parsed[i].activities) >= 1 THEN <<i>> ELSE <<>>])

\* the elevation pass of the same closure: activity 0 of each document
elevate_selected(parsed) ==
    [i \in 1..Len(parsed) |->
        IF Len(parsed[i].activities) >= 1
        THEN [parsed[i] EXCEPT !.activities[1] = calc_lap_elevations(@)]
        ELSE parsed[i]]

\* join_all(join_handles).await resolves when every task has returned
all_returned(h) == \A i \in 1..Len(h) : h[i].state # "running"

\* outputs collected in the order the tasks finished
join_all_completion_order(h, order) == [k \in 1..Len(order) |-> h[order[k]].out]

\* join_all yields the outputs in the order of the handles
join_all(h, order) == [i \in 1..Len(h) |-> h[i].out]

\* the two series handed to the plotting backend
chart_series(stats_vec) ==
    [pace |-> [k \in 1..Len(stats_vec) |->
                  <<k - 1, stats_vec[k].average_pace_seconds>>],
     hr   |-> [k \in 1..Len(stats_vec) |-> <<k - 1, stats_vec[k].average_hr>>]]

(***************************************************************************)
(* Inputs                                                                  *)
(***************************************************************************)
TP(hr, altitude) == [hr |-> hr, altitude |-> altitude]
LX(cadence, watts) == [avg_cadence |-> cadence, avg_watts |-> watts]
RawLapOf(seconds, distance, track, ext) ==
    [seconds |-> seconds, distance |-> distance,
     track_points |-> track, extensions |-> ext]

\* altitudes in half metres; None is a sensor gap
AltOpt == {None, Some(-2), Some(0), Some(1), Some(2)}
ElevPoints == {TP(Some(120), a) : a \in AltOpt}
UnknownAltPoint == TP(Some(120), None)

\* the worked example: 100.0, 100.5, 102.0, 101.0, 99.0 metres
ExampleTrack ==
    << TP(Some(120), Some(200)), TP(Some(120), Some(201)), TP(Some(120), Some(204)),
       TP(Some(120), Some(202)), TP(Some(120), Some(198)) >>

ElevTracks == SeqsUpTo(ElevPoints, MaxPoints) \cup {ExampleTrack}

InsertAt(s, p, x) == SubSeq(s, 1, p) \o <<x>> \o SubSeq(s, p + 1, Len(s))

ElevLap(track) == RawLapOf(480, 1609, track, <<LX(Some(80), Some(200))>>)

\* one lap, or the lap and a copy with an unknown-altitude sample inserted
ElevActivities ==
    {[id |-> <<1>>, laps |-> <<ElevLap(t)>>] : t \in ElevTracks}
    \cup
    UNION {{[id |-> <<1>>,
             laps |-> <<ElevLap(t), ElevLap(InsertAt(t, p, UnknownAltPoint))>>]
               : p \in 0..Len(t)} : t \in ElevTracks}

HrOpt == {None, Some(120)}
HrTracks == SeqsUpTo({TP(h, None) : h \in HrOpt}, MaxHrPoints)
StatLaps ==
    {RawLapOf(480, 1609, t, <<LX(Some(80), Some(200))>>) : t \in HrTracks}
    \cup {RawLapOf(600, 0, t, <<>>) : t \in HrTracks}
StatActivities == {[id |-> <<1>>, laps |-> ls] : ls \in SeqsUpTo(StatLaps, MaxLaps)}

\* the files a folder may hold; <<>> is a file that cannot be read or parsed
LapA == RawLapOf(480, 1609, <<TP(Some(120), Some(0)), TP(Some(130), Some(3))>>,
                 <<LX(Some(80), Some(200))>>)
LapC == RawLapOf(1000, 3218, <<TP(Some(140), Some(4)), TP(None, Some(1))>>,
                 <<LX(None, None)>>)
BadFile == <<>>
FileNoActivity == <<[activities |-> <<>>]>>
FileA == <<[activities |-> <<[id |-> <<2>>, laps |-> <<LapA>>]>>]>>
FileC == <<[activities |-> <<[id |-> <<2>>, laps |-> <<LapC>>]>>]>>
FileD == <<[activities |-> <<[id |-> <<1, 0>>, laps |-> <<LapA>>],
                             [id |-> <<1>>, laps |-> <<LapC>>]>>]>>
FileE == <<[activities |-> <<[id |-> <<3>>, laps |-> <<>>]>>]>>
FileSet == {BadFile, FileNoActivity, FileA, FileC, FileD, FileE}

NoActivity == [id |-> <<>>, laps |-> <<>>]
NoFile == [exists |-> FALSE, content |-> <<>>]

(***************************************************************************)
(* Initial states: a run of the binary over a folder, or a library user    *)
(* holding one freshly parsed activity.                                    *)
(***************************************************************************)
InitFolder ==
    /\ pc = "start"
    /\ files \in SeqsUpTo(FileSet, MaxFiles)
    /\ activity = NoActivity

InitApi ==
    /\ pc = "api"
    /\ files = <<>>
    /\ activity \in {deserialize_activity(raw) : raw \in ElevActivities \cup StatActivities}

Init ==
    /\ (InitFolder \/ InitApi)
    /\ handles = <<>>
    /\ completion = <<>>
    /\ parsed_results = <<>>
    /\ activities = <<>>
    /\ output_file = NoFile
    /\ activity_stats = <<>>
    /\ chart_file = NoFile
    /\ stderr = <<>>
    /\ stats = <<>>
    /\ pace_result = <<>>

(***************************************************************************)
(* Actions of the batch pipeline (display_folder_stats, called by main).   *)
(* An Err returned to main is printed with eprintln!; a panic prints its   *)
(* message through the panic hook.                                         *)
(***************************************************************************)
\* all_tcx_paths, then the loop spawning one parse task per path
SpawnParseTasks ==
    /\ pc = "start"
    /\ \E is_dir \in BOOLEAN :
          IF is_dir
          THEN /\ handles' = [i \in 1..Len(files) |-> [state |-> "running", out |-> <<>>]]
               /\ pc' = "parsing"
               /\ UNCHANGED stderr
          ELSE /\ pc' = "failed"
               /\ stderr' = Append(stderr, "Directory is not a folder.")
               /\ UNCHANGED handles
    /\ UNCHANGED <<files, completion, parsed_results, activities, output_file,
                   activity_stats, chart_file, activity, stats, pace_result>>

\* one spawned task: parse_file(&path).await.expect(..), panicking inside the task
ParseFileTask(i) ==
    /\ handles[i].state = "running"
    /\ LET r == parse_file(files[i])
       IN  IF r = <<>>
           THEN /\ handles' = [handles EXCEPT ![i] = [state |-> "panicked", out |-> <<>>]]
                /\ stderr' = Append(stderr, "Error parsing")
           ELSE /\ handles' = [handles EXCEPT ![i] = [state |-> "finished", out |-> r]]
                /\ UNCHANGED stderr
    /\ completion' = Append(completion, i)
    /\ UNCHANGED <<pc, files, parsed_results, activities, output_file,
                   activity_stats, chart_file, activity, stats, pace_result>>

\* join_all(..).await.into_iter().map(|tcx| tcx.unwrap()).collect()
JoinAll ==
    /\ pc = "parsing"
    /\ all_returned(handles)
    /\ IF \E i \in 1..Len(handles) : handles[i].state = "panicked"
       THEN /\ pc' = "panicked"
            /\ stderr' = Append(stderr, "called Result::unwrap() on an Err value")
            /\ UNCHANGED parsed_results
       ELSE /\ parsed_results' = Flatten(join_all(handles, completion))
            /\ pc' = "select"
            /\ UNCHANGED stderr
    /\ UNCHANGED <<files, handles, completion, activities, output_file,
                   activity_stats, chart_file, activity, stats, pace_result>>

\* the filter_map / collect: select activity 0 and run the elevation pass on it
SelectAndElevate ==
    /\ pc = "select"
    /\ parsed_results' = elevate_selected(parsed_results)
    /\ activities' = select_activities(parsed_results)
    /\ pc' = "sort"
    /\ UNCHANGED <<files, handles, completion, output_file, activity_stats,
                   chart_file, stderr, activity, stats, pace_result>>

\* activities.sort_by(|a1, a2| a1.id.cmp(&a2.id))
SortActivities ==
    /\ pc = "sort"
    /\ activities' = sort_by(activities, parsed_results)
    /\ pc' = "create"
    /\ UNCHANGED <<files, handles, completion, parsed_results, output_file,
                   activity_stats, chart_file, stderr, activity, stats, pace_result>>

\* File::create(output)?
CreateOutputFile ==
    /\ pc = "create"
    /\ \E created \in BOOLEAN :
          IF created
          THEN /\ output_file' = [exists |-> TRUE, content |-> <<>>]
               /\ pc' = "write"
               /\ UNCHANGED stderr
          ELSE /\ pc' = "failed"
               /\ stderr' = Append(stderr, "cannot create the output file")
               /\ UNCHANGED output_file
    /\ UNCHANGED <<files, handles, completion, parsed_results, activities,
                   activity_stats, chart_file, activity, stats, pace_result>>

\* one iteration of `for activity in activities`: from, write_to, push
WriteActivityStats ==
    /\ pc = "write"
    /\ Len(activity_stats) < Len(activities)
    /\ LET a == parsed_results[activities[Len(activity_stats) + 1]].activities[1]
           r == ActivityStats_new(a)
       IN  IF r = Panic
           THEN /\ pc' = "panicked"
                /\ stderr' = Append(stderr, "attempt to divide by zero")
                /\ UNCHANGED <<output_file, activity_stats>>
           ELSE \E written \in BOOLEAN :
                  IF written
                  THEN /\ output_file' = [output_file EXCEPT
                                            !.content = Append(@, stats_lines(r[1]))]
                       /\ activity_stats' = Append(activity_stats, r[1])
                       /\ UNCHANGED <<pc, stderr>>
                  ELSE /\ pc' = "failed"
                       /\ stderr' = Append(stderr, "cannot write the output file")
                       /\ UNCHANGED <<output_file, activity_stats>>
    /\ UNCHANGED <<files, handles, completion, parsed_results, activities,
                   chart_file, activity, stats, pace_result>>

\* chart(chart_filename, activity_stats)?; a drawing error is returned, a
\* failure of root.present() panics (expect)
Chart ==
    /\ pc = "write"
    /\ Len(activity_stats) = Len(activities)
    /\ \E outcome \in {"ok", "draw_error", "present_panic"} :
          IF outcome = "ok"
          THEN /\ chart_file' = [exists |-> TRUE, content |-> chart_series(activity_stats)]
               /\ pc' = "done"
               /\ UNCHANGED stderr
          ELSE IF outcome = "draw_error"
          THEN /\ pc' = "failed"
               /\ stderr' = Append(stderr, "cannot draw the chart")
               /\ UNCHANGED chart_file
          ELSE /\ pc' = "panicked"
               /\ stderr' = Append(stderr, "Unable to write result to file")
               /\ UNCHANGED chart_file
    /\ UNCHANGED <<files, handles, completion, parsed_results, activities,
                   output_file, activity_stats, activity, stats, pace_result>>

(***************************************************************************)
(* Actions of a direct user of the library API on one activity             *)
(***************************************************************************)
\* activity.calc_lap_elevations()
ApiCalcLapElevations ==
    /\ pc = "api"
    /\ \A k \in 1..Len(activity.laps) : activity.laps[k].runs < MaxRuns
    /\ activity' = calc_lap_elevations(activity)
    /\ UNCHANGED <<pc, files, handles, completion, parsed_results, activities,
                   output_file, activity_stats, chart_file, stderr, stats, pace_result>>

\* ActivityStats::new(&activity) / ActivityStats::from(&activity)
ApiNewStats ==
    /\ pc = "api"
    /\ LET r == ActivityStats_new(activity)
       IN  IF r = Panic
           THEN /\ pc' = "api_panic"
                /\ stderr' = Append(stderr, "attempt to divide by zero")
                /\ UNCHANGED stats
           ELSE /\ pc' = "api_stats"
                /\ stats' = r
                /\ UNCHANGED stderr
    /\ UNCHANGED <<files, handles, completion, parsed_results, activities,
                   output_file, activity_stats, chart_file, activity, pace_result>>

\* activity.average_pace() and activity.average_pace_seconds()
ApiAveragePace ==
    /\ pc = "api"
    /\ pace_result' = <<[text |-> average_pace(activity),
                  duration |-> average_pace_seconds(activity)]>>
    /\ pc' = "api_pace"
    /\ UNCHANGED <<files, handles, completion, parsed_results, activities,
                   output_file, activity_stats, chart_file, stderr, activity, stats>>

Next ==
    \/ SpawnParseTasks
    \/ \E i \in 1..Len(handles) : ParseFileTask(i)
    \/ JoinAll
    \/ SelectAndElevate
    \/ SortActivities
    \/ CreateOutputFile
    \/ WriteActivityStats
    \/ Chart
    \/ ApiCalcLapElevations
    \/ ApiNewStats
    \/ ApiAveragePace

Spec == Init /\ [][Next]_vars

(***************************************************************************)
(* Vocabulary of the properties                                            *)
(***************************************************************************)
ApiLaps == {activity.laps[k] : k \in 1..Len(activity.laps)}

BatchLaps ==
    UNION {UNION {{parsed_results[i].activities[j].laps[k]
                      : k \in 1..Len(parsed_results[i].activities[j].laps)}
                    : j \in 1..Len(parsed_results[i].activities)}
             : i \in 1..Len(parsed_results)}

AllLaps == ApiLaps \cup BatchLaps

\* the known altitude readings of a track, in order
Readings(track) == Flatten([k \in 1..Len(track) |-> track[k].altitude])

\* the reference a pass starts from: the first sample's altitude if known, else 0.0
StartReference(track) ==
    IF track # <<>> /\ track[1].altitude # None THEN track[1].altitude[1] ELSE 0

\* The filter as the specification words it, over samples k..Len(track):
\* a known altitude at least 1.0 m (2 half metres) from the reference adds
\* its distance to gain when above the reference, to loss otherwise, and
\* becomes the reference; every other sample changes nothing.
RECURSIVE Hysteresis(_, _, _, _, _)
Hysteresis(track, k, ref, gain, loss) ==
    IF k > Len(track) THEN [ref |-> ref, gain |-> gain, loss |-> loss]
    ELSE LET alt == track[k].altitude
         IN  IF alt # None /\ Abs(alt[1] - ref) >= 2
             THEN IF alt[1] > ref
                  THEN Hysteresis(track, k + 1, alt[1], gain + (alt[1] - ref), loss)
                  ELSE Hysteresis(track, k + 1, alt[1], gain, loss + (ref - alt[1]))
             ELSE Hysteresis(track, k + 1, ref, gain, loss)

HysteresisFilter(track) == Hysteresis(track, 2, StartReference(track), 0, 0)

\* the altitude (known or not) of every sample of a track, in order
SampleAltitudes(track) == [k \in 1..Len(track) |-> track[k].altitude]

\* five samples reading 100.0, 100.5, 102.0, 101.0, 99.0 metres
ExampleAltitudes == <<Some(200), Some(201), Some(204), Some(202), Some(198)>>

\* a <= b in the lexicographic order of character sequences
LexLeq(a, b) ==
    \/ /\ Len(a) <= Len(b)
       /\ \A k \in 1..Len(a) : a[k] = b[k]
    \/ \E k \in 1..Len(a) :
          /\ k <= Len(b)
          /\ \A j \in 1..(k - 1) : a[j] = b[j]
          /\ a[k] < b[k]

IdAt(k) == parsed_results[activities[k]].activities[1].id

Selected == {i \in 1..Len(parsed_results) : Len(parsed_results[i].activities) >= 1}

Sorted == pc \in {"create", "write", "done"}
Joined == pc \in {"select", "sort", "create", "write", "done"}
Fatal == pc \in {"failed", "panicked"}

(***************************************************************************)
(* C1: building the stats record never panics, for every activity,         *)
(* including one with zero laps and one whose laps hold zero samples.      *)
(* (Stated as the claim; the code violates it.)                            *)
(***************************************************************************)
C1_StatsNeverPanic ==
    /\ pc # "api_panic"
    /\ ~(pc = "panicked" /\ \E k \in 1..Len(stderr) : stderr[k] = "attempt to divide by zero")

(***************************************************************************)
(* C2: for two fresh laps passed once through calc_elevation, one holding  *)
(* the samples of the other plus one unknown-altitude sample inserted at   *)
(* any position (the first included), gain and loss are the same.          *)
(* (Stated as the claim; the code violates it at the first position.)      *)
(***************************************************************************)
C2_MissingAltitudeSkip ==
    \A l1 \in ApiLaps : \A l2 \in ApiLaps :
        \A p \in 0..Len(l1.track_points) :
            ( /\ l1.runs = 1
              /\ l2.runs = 1
              /\ Len(l2.track_points) = Len(l1.track_points) + 1
              /\ l2.track_points[p + 1].altitude = None
              /\ l2.track_points = InsertAt(l1.track_points, p, l2.track_points[p + 1]) )
            => /\ l2.alt_gain_meters = l1.alt_gain_meters
               /\ l2.alt_loss_meters = l1.alt_loss_meters

(***************************************************************************)
(* C3 as stated: a fresh lap whose consecutive altitude readings all       *)
(* differ by less than 1.0 m has gain = loss = 0 after calc_elevation.     *)
(* It is stated here for laps whose first sample has a known altitude, a   *)
(* case of the claim in which the starting reference is that altitude.     *)
(***************************************************************************)
C3_ConsecutiveBelowThreshold ==
    \A lap \in AllLaps :
        LET r == Readings(lap.track_points)
        IN  ( /\ lap.runs = 1
              /\ lap.track_points # <<>>
              /\ lap.track_points[1].altitude # None
              /\ \A k \in 1..(Len(r) - 1) : Abs(r[k + 1] - r[k]) < 2 )
            => lap.alt_gain_meters = 0 /\ lap.alt_loss_meters = 0

(***************************************************************************)
(* C3 amended: a fresh lap in which every known altitude differs by less   *)
(* than 1.0 m from the starting reference (the first sample's altitude if  *)
(* known, else 0.0) has gain = loss = 0 after calc_elevation, whatever the *)
(* number of samples.                                                      *)
(***************************************************************************)
C3_AllWithinThresholdOfReference ==
    \A lap \in AllLaps :
        LET r == Readings(lap.track_points)
            ref == StartReference(lap.track_points)
        IN  ( /\ lap.runs = 1
              /\ \A k \in 1..Len(r) : Abs(r[k] - ref) < 2 )
            => lap.alt_gain_meters = 0 /\ lap.alt_loss_meters = 0

C3_Witness ==
    \E lap \in ApiLaps :
        LET r == Readings(lap.track_points)
        IN  /\ lap.runs = 1
            /\ Len(r) >= 3
            /\ r[2] # r[1] /\ r[3] # r[1] /\ r[3] # r[2]
            /\ \A k \in 1..Len(r) : Abs(r[k] - StartReference(lap.track_points)) < 2
            /\ lap.alt_gain_meters = 0 /\ lap.alt_loss_meters = 0

(***************************************************************************)
(* C4: average_hr is the sum of the heart-rate values divided by the       *)
(* number of samples that carry a heart rate, and 0 with zero laps.        *)
(* (Stated as the claim; the code divides by the number of all samples.)   *)
(***************************************************************************)
HrSamples(a) ==
    SumSeq([k \in 1..Len(a.laps) |->
              Len(Flatten([n \in 1..Len(a.laps[k].track_points) |->
                              a.laps[k].track_points[n].hr]))])

HrTotal(a) ==
    SumSeq([k \in 1..Len(a.laps) |->
              SumSeq(Flatten([n \in 1..Len(a.laps[k].track_points) |->
                                 a.laps[k].track_points[n].hr]))])

C4_AverageHrOverHrSamples ==
    /\ (Len(activity.laps) = 0 => average_hr(activity) = Ok(0))
    /\ (pc = "api_stats" /\ HrSamples(activity) > 0)
          => stats[1].average_hr = HrTotal(activity) \div HrSamples(activity)

(***************************************************************************)
(* C5: for an activity with zero laps the pace string is "00:00 / mi" and  *)
(* the pace duration is zero seconds.                                      *)
(* (Stated as the claim; the code yields a duration of u64::MAX seconds.)  *)
(***************************************************************************)
C5_ZeroLapPace ==
    (pc = "api_pace" /\ Len(activity.laps) = 0)
       => /\ pace_result[1].text = "00:00 / mi"
          /\ pace_result[1].duration = [as_secs |-> 0, is_u64_max |-> FALSE]

(***************************************************************************)
(* C6: on any fatal error the message is printed and neither a report file *)
(* nor a chart is produced.                                                *)
(* (Stated as the claim; the code leaves the report when a later step      *)
(* fails.)                                                                 *)
(***************************************************************************)
C6_NoOutputOnFatalError ==
    Fatal => /\ stderr # <<>>
             /\ ~output_file.exists
             /\ ~chart_file.exists

(***************************************************************************)
(* C7: after the sort the activities are a permutation of the selected     *)
(* ones (activity 0 of each document that has one), ascending by           *)
(* identifier in lexicographic order, equal identifiers in input order;    *)
(* the chart index of each activity is its 0-based position.               *)
(***************************************************************************)
C7_SortedStablePermutation ==
    /\ Sorted =>
          /\ Len(activities) = Cardinality(Selected)
          /\ {activities[k] : k \in 1..Len(activities)} = Selected
          /\ \A k \in 1..Len(activities) : \A l \in 1..Len(activities) :
                k < l => /\ LexLeq(IdAt(k), IdAt(l))
                         /\ (IdAt(k) = IdAt(l) => activities[k] < activities[l])
    /\ pc = "done" =>
          /\ Len(activity_stats) = Len(activities)
          /\ Len(chart_file.content.pace) = Len(activities)
          /\ Len(chart_file.content.hr) = Len(activities)
          /\ \A k \in 1..Len(activities) :
                /\ activity_stats[k].date = IdAt(k)
                /\ chart_file.content.pace[k] =
                      <<k - 1, activity_stats[k].average_pace_seconds>>
                /\ chart_file.content.hr[k] = <<k - 1, activity_stats[k].average_hr>>

C7_Witness ==
    /\ pc = "done"
    /\ Len(activities) = 3
    /\ \E k \in 1..2 : IdAt(k) = IdAt(k + 1)
    /\ \E k \in 1..2 : activities[k] > activities[k + 1]
    /\ \E k \in 1..2 : Len(IdAt(k)) > Len(IdAt(k + 1))
    /\ chart_file.exists

(***************************************************************************)
(* C8: no select, elevation, sort or aggregate step happens before every   *)
(* parse task has returned, and the documents and the order of the         *)
(* activities handed to the aggregator are a function of the list of       *)
(* files alone, whatever the order in which the parse tasks finished.      *)
(***************************************************************************)
ParsedFromFiles == [i \in 1..Len(files) |-> parse_file(files[i])[1]]

C8_DeterministicAfterBarrier ==
    /\ Joined =>
          /\ Len(handles) = Len(files)
          /\ \A i \in 1..Len(handles) : handles[i].state = "finished"
          /\ Len(parsed_results) = Len(files)
          /\ \A i \in 1..Len(files) : <<RawDocument(parsed_results[i])>> = files[i]
    /\ Sorted =>
          activities = sort_by(select_activities(ParsedFromFiles), ParsedFromFiles)

C8_Witness ==
    /\ pc = "done"
    /\ Len(completion) = 3
    /\ completion[1] > completion[2]
    /\ completion[2] > completion[3]
    /\ Len(activities) = 3
    /\ activities # <<1, 2, 3>>

(***************************************************************************)
(* C9: one pass of calc_elevation over a fresh lap is the hysteresis       *)
(* filter of the specification; the altitudes 100.0, 100.5, 102.0, 101.0,  *)
(* 99.0 give gain 2.0 m and loss 3.0 m, reported as 7 ft and 10 ft.        *)
(***************************************************************************)
C9_HysteresisFilter ==
    /\ \A lap \in AllLaps :
          lap.runs = 1 =>
             LET f == HysteresisFilter(lap.track_points)
             IN  /\ lap.alt_gain_meters = f.gain
                 /\ lap.alt_loss_meters = f.loss
                 /\ lap.last_alt = f.ref
                 /\ SampleAltitudes(lap.track_points) = ExampleAltitudes
                       => lap.alt_gain_meters = 4 /\ lap.alt_loss_meters = 6
    /\ ( /\ pc = "api_stats"
         /\ Len(activity.laps) = 1
         /\ activity.laps[1].runs = 1
         /\ SampleAltitudes(activity.laps[1].track_points) = ExampleAltitudes )
       => stats[1].elevation_gain = 7 /\ stats[1].elevation_loss = 10

C9_Witness ==
    /\ pc = "api_stats"
    /\ Len(activity.laps) = 1
    /\ activity.laps[1].runs = 1
    /\ SampleAltitudes(activity.laps[1].track_points) = ExampleAltitudes
    /\ activity.laps[1].alt_gain_meters = 4
    /\ stats[1].elevation_loss = 10

(***************************************************************************)
(* C10: a lap's totals are zero before the engine has run on it; after n   *)
(* runs with unchanged samples gain and loss are n times the totals of one *)
(* pass while last_alt is the same after every run; the batch pipeline     *)
(* runs the engine exactly once on every lap of each selected activity     *)
(* (and on no other lap).                                                  *)
(***************************************************************************)
C10_AccumulatesPerRun ==
    /\ \A lap \in AllLaps :
          LET f == HysteresisFilter(lap.track_points)
          IN  /\ lap.runs = 0 => lap.alt_gain_meters = 0 /\ lap.alt_loss_meters = 0
              /\ lap.alt_gain_meters = lap.runs * f.gain
              /\ lap.alt_loss_meters = lap.runs * f.loss
              /\ lap.runs >= 1 => lap.last_alt = f.ref
    /\ pc = "select" => \A lap \in BatchLaps : lap.runs = 0
    /\ pc \in {"sort", "create", "write", "done"} =>
          \A i \in 1..Len(parsed_results) :
             \A j \in 1..Len(parsed_results[i].activities) :
                \A k \in 1..Len(parsed_results[i].activities[j].laps) :
                   parsed_results[i].activities[j].laps[k].runs = IF j = 1 THEN 1 ELSE 0

C10_Witness ==
    /\ pc = "api"
    /\ \E lap \in ApiLaps :
          /\ lap.runs = 2
          /\ lap.alt_gain_meters = 2 * HysteresisFilter(lap.track_points).gain
          /\ lap.alt_gain_meters > 0
          /\ lap.alt_loss_meters > 0
====
